---- MODULE Spec2Model ----
(***************************************************************************)
(* Stock-price pipeline of Project_4: the Fetcher notebook appends rows    *)
(* to the SQLite table `stocks`, the preprocessing notebook (Feature       *)
(* Engine) recomputes the table `processed_stocks` from it, the trainer    *)
(* notebooks read `processed_stocks` and write model/scaler files.         *)
(*                                                                         *)
(* Numbers.  Prices and volumes are positive integers.  A mean or a daily  *)
(* return is an exact fraction <<numerator, denominator>> in lowest terms; *)
(* the fraction <<0, 0>> is the missing value of a derived column.  The    *)
(* rolling standard deviation is kept as the window of returns it is the   *)
(* standard deviation of (the empty window is the missing value): the      *)
(* claims settled here depend on where it is defined and on which rows it  *)
(* is computed from, never on its magnitude.                               *)
(*                                                                         *)
(* Specifications.  Spec: Fetcher, Feature Engine and whole trainer runs   *)
(* on one database.  SpecFetcher: the Fetcher loop alone, with fairness.   *)
(* SpecTrainer: the two trainer notebooks cell by cell on the tables the   *)
(* other notebooks leave.  A scaled cell is kept as the triple of value    *)
(* and the two fitted parameters it is computed with.                      *)
(***************************************************************************)
EXTENDS Integers, Sequences, FiniteSets, TLC

VARIABLES
    stocks,         \* table `stocks`: sequence of raw rows in rowid order
    processed,      \* table `processed_stocks`: sequence of feature rows
    fetchIdx,       \* Fetcher loop position: 0 = not running, i = about to fetch stocks_list[i]
    log,            \* what the running (or last) Fetcher run printed, one entry per ticker attempted
    attempts,       \* number of fetch_and_store_data calls made so far
    engineRuns,     \* Feature Engine runs since `stocks` was last written (counted up to 2)
    artifacts,      \* files under models/: file name |-> what the file holds
    trainerRuns,    \* trainer notebook runs started so far
    notebook,       \* the trainer notebook that is open: "none", "rf" or "lstm"
    pc,             \* the last cell the open notebook has run
    data,           \* trainer kernel: processed_stocks as loaded
    X,              \* trainer kernel: feature rows (with target) of the ticker
    X_scaled,       \* LSTM kernel: X after the scaler
    X_train,        \* trainer kernel: training partition
    X_test,         \* trainer kernel: test partition
    scaler,         \* trainer kernel: the scaler object
    X_train_scaled, \* trainer kernel: what the model is fit on
    X_test_scaled,  \* trainer kernel: what the model is evaluated on
    model,          \* trainer kernel: the model object
    early_stopping, \* LSTM kernel: the EarlyStopping callback object
    history,        \* LSTM kernel: validation loss per epoch run
    loss_curve,     \* LSTM kernel: the course the validation loss takes in this fit
    y_pred          \* trainer kernel: the evaluation: the rows predicted and the model used

vars == <<stocks, processed, fetchIdx, log, attempts, engineRuns, artifacts,
          trainerRuns, notebook, pc, data, X, X_scaled, X_train, X_test, scaler,
          X_train_scaled, X_test_scaled, model, early_stopping, history, loss_curve, y_pred>>

\* the kernel of the trainer notebooks and the run counter
trainer == <<trainerRuns, notebook, pc, data, X, X_scaled, X_train, X_test, scaler,
             X_train_scaled, X_test_scaled, model, early_stopping, history, loss_curve, y_pred>>

----------------------------------------------------------------------------
(* Bounds of the model *)

NumTickers == 2     \* how many entries of the ticker list are fetched
MaxLen == 15        \* trading days in the fetched date range
MaxFetches == 4     \* fetch_and_store_data calls in one behaviour
MaxTrainerRuns == 2 \* trainer notebook runs in one behaviour

----------------------------------------------------------------------------
(* Values *)

NaN == -1           \* a missing value (NULL / NaN) in a raw column
TEXT == -2          \* a non-numeric text in a raw column
NaNRat == <<0, 0>>  \* a missing value in a fraction-valued derived column
NaNStd == <<>>      \* a missing value in the Volatility column

Abs(n) == IF n < 0 THEN -n ELSE n

RECURSIVE GCD(_, _)
GCD(a, b) == IF b = 0 THEN a ELSE GCD(b, a % b)

\* the fraction n/d (d > 0) in lowest terms
Rat(n, d) == LET g == GCD(Abs(n), d) IN <<n \div g, d \div g>>

Range(s) == {s[k] : k \in 1..Len(s)}

RECURSIVE SumSeq(_)
SumSeq(s) == IF s = <<>> THEN 0 ELSE Head(s) + SumSeq(Tail(s))

----------------------------------------------------------------------------
(* Fetcher notebook *)

all_stocks ==
    << [ticker |-> "XOM", company |-> "Exxon Mobil"],
       [ticker |-> "CVX", company |-> "Chevron"],
       [ticker |-> "COP", company |-> "ConocoPhillips"],
       [ticker |-> "T", company |-> "AT&T"],
       [ticker |-> "TMUS", company |-> "T-Mobile"],
       [ticker |-> "VZ", company |-> "Verizon"] >>

stocks_list == SubSeq(all_stocks, 1, NumTickers)

Tickers == {stocks_list[i].ticker : i \in 1..NumTickers}

\* The upstream source: adjusted close of a ticker on trading day d.
\* XOM is the series 10, 11, 12, ... of the end-to-end scenario.
Price(t, d) ==
    CASE t = "XOM" -> 9 + d
      [] t = "CVX" -> 30 + ((d * d) % 7)
      [] OTHER -> 50 + (d % 3)

\* What yf.download can return for a ticker: n trading days 1..n, in date
\* order, with at most one defective cell.
Downloads(t) ==
    CASE t = "XOM" ->
            { [len |-> MaxLen, defect |-> "none", at |-> 0],
              [len |-> MaxLen - 2, defect |-> "none", at |-> 0],
              [len |-> MaxLen, defect |-> "volume", at |-> MaxLen],
              [len |-> MaxLen, defect |-> "text", at |-> 5] }
      [] t = "CVX" ->
            { [len |-> MaxLen - 1, defect |-> "none", at |-> 0],
              [len |-> MaxLen, defect |-> "adjclose", at |-> 3] }
      [] OTHER ->
            { [len |-> MaxLen - 1, defect |-> "none", at |-> 0] }

\* yf.download(...) followed by the Company/Ticker columns and reset_index:
\* the data frame that is written to the table.
stock_data(i, dl) ==
    LET t == stocks_list[i].ticker IN
    [d \in 1..dl.len |->
        [Date |-> d,
         AdjClose |-> IF dl.at = d /\ dl.defect = "adjclose" THEN NaN
                      ELSE IF dl.at = d /\ dl.defect = "text" THEN TEXT
                      ELSE Price(t, d),
         Volume |-> IF dl.at = d /\ dl.defect = "volume" THEN NaN ELSE 100 + d,
         Company |-> stocks_list[i].company,
         Ticker |-> t]]

\* variant: the table is dropped and written anew
to_sql_append_Replacing(table, frame) == frame

\* DataFrame.to_sql(table, if_exists='append')
to_sql_append(table, frame) == table \o frame

\* variant: the frame is added to the rows already in the table
to_sql_replace_Appending(table, frame) == table \o frame

\* variant: an existing table is left as it is
to_sql_replace_KeepOld(table, frame) == IF table = <<>> THEN frame ELSE table

\* DataFrame.to_sql(table, if_exists='replace')
to_sql_replace(table, frame) == frame

NextIdx(i) == IF i = NumTickers THEN 0 ELSE i + 1

\* The notebook's loop cell is started.
StartFetcher ==
    /\ fetchIdx = 0
    /\ attempts < MaxFetches
    /\ fetchIdx' = 1
    /\ log' = <<>>
    /\ UNCHANGED <<stocks, processed, attempts, engineRuns, artifacts>>
    /\ UNCHANGED trainer

\* fetch_and_store_data runs through its try block.
FetchStore ==
    /\ fetchIdx \in 1..NumTickers
    /\ attempts < MaxFetches
    /\ \E dl \in Downloads(stocks_list[fetchIdx].ticker) :
          stocks' = to_sql_append(stocks, stock_data(fetchIdx, dl))
    /\ log' = Append(log, [ticker |-> stocks_list[fetchIdx].ticker, status |-> "saved",
                            cause |-> "none"])
    /\ fetchIdx' = NextIdx(fetchIdx)
    /\ attempts' = attempts + 1
    /\ engineRuns' = 0
    /\ UNCHANGED <<processed, artifacts>>
    /\ UNCHANGED trainer

\* what can raise inside the try block of fetch_and_store_data: the
\* download, or sqlite3.connect / to_sql
ErrorCauses == {"download", "database"}

\* variant: the exception is not caught and ends the loop
FetchError_Aborting ==
    /\ fetchIdx \in 1..NumTickers
    /\ attempts < MaxFetches
    /\ \E c \in ErrorCauses :
          log' = Append(log, [ticker |-> stocks_list[fetchIdx].ticker, status |-> "error",
                              cause |-> c])
    /\ fetchIdx' = 0
    /\ attempts' = attempts + 1
    /\ UNCHANGED <<stocks, processed, engineRuns, artifacts>>
    /\ UNCHANGED trainer

\* variant: the failed ticker is fetched again
FetchError_Retrying ==
    /\ fetchIdx \in 1..NumTickers
    /\ attempts < MaxFetches
    /\ \E c \in ErrorCauses :
          log' = Append(log, [ticker |-> stocks_list[fetchIdx].ticker, status |-> "error",
                              cause |-> c])
    /\ fetchIdx' = fetchIdx
    /\ attempts' = attempts + 1
    /\ UNCHANGED <<stocks, processed, engineRuns, artifacts>>
    /\ UNCHANGED trainer

\* An exception is raised inside the try block (by the download, or by the
\* database write, whose transaction is then rolled back); the except
\* clause prints it and the function returns normally.
FetchError ==
    /\ fetchIdx \in 1..NumTickers
    /\ attempts < MaxFetches
    /\ \E c \in ErrorCauses :
          log' = Append(log, [ticker |-> stocks_list[fetchIdx].ticker, status |-> "error",
                              cause |-> c])
    /\ fetchIdx' = NextIdx(fetchIdx)
    /\ attempts' = attempts + 1
    /\ UNCHANGED <<stocks, processed, engineRuns, artifacts>>
    /\ UNCHANGED trainer

----------------------------------------------------------------------------
(* Preprocessing notebook (Feature Engine) *)

\* pd.to_numeric(..., errors='coerce') on one cell
to_numeric(v) == IF v >= 0 THEN v ELSE NaN

\* variant: a missing adjusted close is filled with 0 and the row kept
Clean_FillZero(raw) ==
    [k \in 1..Len(raw) |->
        [raw[k] EXCEPT !.AdjClose = IF to_numeric(@) = NaN THEN 0 ELSE @]]

\* variant: rows with a missing value in any column are dropped at once
Clean_DropAnyNull(raw) ==
    SelectSeq(raw, LAMBDA r : to_numeric(r.AdjClose) # NaN /\ r.Volume # NaN)

\* the cleaning cell: coerce 'Adj Close', then dropna(subset=['Adj Close'])
Clean(raw) ==
    LET coerced == [k \in 1..Len(raw) |->
                        [raw[k] EXCEPT !.AdjClose = to_numeric(@)]]
    IN SelectSeq(coerced, LAMBDA r : r.AdjClose # NaN)

\* variant: the window holds one row too few
rolling_mean_Short(x, w) ==
    [i \in 1..Len(x) |->
        IF i < w THEN NaNRat ELSE Rat(SumSeq(SubSeq(x, i - w + 2, i)), w - 1)]

\* x.rolling(window=w).mean() on one group
rolling_mean(x, w) ==
    [i \in 1..Len(x) |->
        IF i < w THEN NaNRat ELSE Rat(SumSeq(SubSeq(x, i - w + 1, i)), w)]

\* pct_change() on one group
pct_change(x) ==
    [i \in 1..Len(x) |->
        IF i = 1 THEN NaNRat ELSE Rat(x[i] - x[i - 1], x[i - 1])]

\* x.rolling(window=w).std() on one group: defined when the window holds w
\* observations, none of them missing
rolling_std(r, w) ==
    [i \in 1..Len(r) |->
        IF i < w \/ (\E j \in (i - w + 1)..i : r[j] = NaNRat)
        THEN NaNStd ELSE SubSeq(r, i - w + 1, i)]

\* variant: every lag is the previous row
shift_ByOne(x, k) == [i \in 1..Len(x) |-> IF i <= k THEN NaN ELSE x[i - 1]]

\* shift(k) on one group
shift(x, k) == [i \in 1..Len(x) |-> IF i <= k THEN NaN ELSE x[i - k]]

\* a sequence given by a rule, as a stored sequence
Stored(f) == SubSeq(f, 1, Len(f))

\* position of a ticker in the ticker list
TickerIdx(t) == CHOOSE i \in 1..NumTickers : stocks_list[i].ticker = t

\* groupby('Ticker'): the rows of one ticker, in frame order
GroupBy(df, t) == SelectSeq(df, LAMBDA r : r.Ticker = t)

\* the derived columns of one group
GroupFeatures(rows) ==
    LET x == Stored([j \in 1..Len(rows) |-> rows[j].AdjClose])
        ma7 == rolling_mean(x, 7)
        ma14 == rolling_mean(x, 14)
        ret == Stored(pct_change(x))
        vol == rolling_std(ret, 7)
        lag1 == shift(x, 1)
        lag2 == shift(x, 2)
    IN Stored([j \in 1..Len(rows) |->
          [MA7 |-> ma7[j], MA14 |-> ma14[j], DailyReturn |-> ret[j],
           Volatility |-> vol[j], Lag_1 |-> lag1[j], Lag_2 |-> lag2[j]]])

\* position of every row of the frame within its group
RECURSIVE GroupPos(_, _, _)
GroupPos(df, k, count) ==
    IF k > Len(df) THEN <<>>
    ELSE LET i == TickerIdx(df[k].Ticker)
         IN <<count[i] + 1>> \o GroupPos(df, k + 1, [count EXCEPT ![i] = @ + 1])

\* variant: the lag columns are shifted over the whole frame, not per group
Engineer_UngroupedLags(df) ==
    LET feat == Stored([i \in 1..NumTickers |->
                    GroupFeatures(GroupBy(df, stocks_list[i].ticker))])
        pos == GroupPos(df, 1, [i \in 1..NumTickers |-> 0])
        col == Stored([k \in 1..Len(df) |-> df[k].AdjClose])
    IN [k \in 1..Len(df) |->
          LET f == feat[TickerIdx(df[k].Ticker)][pos[k]]
          IN [Date |-> df[k].Date,
              AdjClose |-> df[k].AdjClose,
              Volume |-> df[k].Volume,
              Company |-> df[k].Company,
              Ticker |-> df[k].Ticker,
              MA7 |-> f.MA7,
              MA14 |-> f.MA14,
              DailyReturn |-> f.DailyReturn,
              Volatility |-> f.Volatility,
              Lag_1 |-> shift(col, 1)[k],
              Lag_2 |-> shift(col, 2)[k]]]

\* the feature cell: every derived column is computed group by group and
\* written back to the rows of the group
Engineer(df) ==
    LET feat == Stored([i \in 1..NumTickers |->
                    GroupFeatures(GroupBy(df, stocks_list[i].ticker))])
        pos == GroupPos(df, 1, [i \in 1..NumTickers |-> 0])
    IN [k \in 1..Len(df) |->
          LET f == feat[TickerIdx(df[k].Ticker)][pos[k]]
          IN [Date |-> df[k].Date,
              AdjClose |-> df[k].AdjClose,
              Volume |-> df[k].Volume,
              Company |-> df[k].Company,
              Ticker |-> df[k].Ticker,
              MA7 |-> f.MA7,
              MA14 |-> f.MA14,
              DailyReturn |-> f.DailyReturn,
              Volatility |-> f.Volatility,
              Lag_1 |-> f.Lag_1,
              Lag_2 |-> f.Lag_2]]

\* variant: only the lag columns are looked at
dropna_LagsOnly(df) ==
    SelectSeq(df, LAMBDA r : r.Lag_1 # NaN /\ r.Lag_2 # NaN)

\* DataFrame.dropna(): a row stays when no column of it is missing
dropna(df) ==
    SelectSeq(df, LAMBDA r :
        /\ r.AdjClose # NaN
        /\ r.Volume # NaN
        /\ r.MA7 # NaNRat
        /\ r.MA14 # NaNRat
        /\ r.DailyReturn # NaNRat
        /\ r.Volatility # NaNStd
        /\ r.Lag_1 # NaN
        /\ r.Lag_2 # NaN)

\* cells 2-4 of the notebook: load, clean, engineer, drop
processed_data(table) == dropna(Engineer(Clean(table)))

\* The preprocessing notebook is run from its first to its last cell.
RunFeatureEngine ==
    /\ fetchIdx = 0
    /\ processed' = to_sql_replace(processed, processed_data(stocks))
    /\ engineRuns' = IF engineRuns < 2 THEN engineRuns + 1 ELSE 2
    /\ UNCHANGED <<stocks, fetchIdx, log, attempts, artifacts>>
    /\ UNCHANGED trainer

----------------------------------------------------------------------------
(* Trainer notebooks *)

default_ticker == "XOM"

ModelKinds == {"rf", "lstm"}

\* f'models/model_{default_ticker}_rf.pkl', f'models/model_{default_ticker}_lstm.h5'
model_filename(ticker, kind) ==
    "models/model_" \o ticker \o "_" \o kind \o (IF kind = "rf" THEN ".pkl" ELSE ".h5")

\* variant: the scaler file is named by the ticker alone
scaler_filename_NoKind(ticker, kind) == "models/scaler_" \o ticker \o ".pkl"

\* f'models/scaler_{default_ticker}_rf.pkl', f'models/scaler_{default_ticker}_lstm.pkl'
scaler_filename(ticker, kind) == "models/scaler_" \o ticker \o "_" \o kind \o ".pkl"

\* data[data['Ticker'] == default_ticker]
ticker_data(frame) == SelectSeq(frame, LAMBDA r : r.Ticker = default_ticker)

features == {"MA7", "MA14", "Volatility", "Lag_1", "Lag_2"}

\* the features whose values the model holds as numbers
NumericFeatures == features \ {"Volatility"}

\* X = ticker_data[features], y = ticker_data[target]: one record per row,
\* `pos` the row's position in ticker_data, AdjClose the target y
DefineXy(frame) ==
    [k \in 1..Len(frame) |->
        [pos |-> k, MA7 |-> frame[k].MA7, MA14 |-> frame[k].MA14,
         Volatility |-> frame[k].Volatility, Lag_1 |-> frame[k].Lag_1,
         Lag_2 |-> frame[k].Lag_2, AdjClose |-> frame[k].AdjClose]]

PosOf(rows) == [k \in 1..Len(rows) |-> rows[k].pos]

\* numpy RandomState(42).permutation(n) for n = 1, 2, ..., 1-based: what
\* train_test_split(..., random_state=42) shuffles n rows with
permutation ==
    << <<1>>,
       <<2, 1>>,
       <<1, 2, 3>>,
       <<2, 4, 1, 3>>,
       <<2, 5, 3, 1, 4>>,
       <<1, 2, 6, 3, 5, 4>>,
       <<1, 2, 6, 3, 5, 4, 7>>,
       <<2, 6, 1, 8, 3, 5, 4, 7>>,
       <<8, 2, 6, 1, 9, 3, 5, 4, 7>>,
       <<9, 2, 6, 1, 8, 3, 10, 5, 4, 7>>,
       <<6, 1, 10, 11, 3, 2, 9, 5, 8, 4, 7>>,
       <<11, 10, 1, 9, 6, 3, 2, 12, 5, 8, 4, 7>>,
       <<12, 10, 1, 9, 6, 3, 2, 13, 5, 8, 11, 4, 7>>,
       <<10, 12, 1, 13, 6, 9, 3, 2, 14, 5, 8, 11, 4, 7>>,
       <<10, 12, 1, 14, 6, 9, 3, 2, 15, 5, 8, 11, 13, 4, 7>>,
       <<1, 2, 6, 15, 14, 12, 9, 10, 3, 16, 5, 8, 11, 13, 4, 7>>,
       <<1, 2, 6, 16, 12, 15, 9, 14, 3, 10, 17, 5, 8, 11, 13, 4, 7>>,
       <<1, 2, 9, 6, 4, 14, 17, 16, 12, 3, 10, 18, 5, 13, 8, 11, 15, 7>>,
       <<1, 6, 12, 2, 9, 17, 4, 14, 16, 18, 3, 10, 19, 5, 13, 8, 11, 15, 7>>,
       <<1, 18, 16, 2, 9, 6, 12, 4, 19, 17, 14, 3, 10, 20, 5, 13, 8, 11, 15, 7>>,
       <<1, 18, 16, 2, 9, 6, 12, 4, 19, 17, 14, 3, 10, 21, 5, 13, 8, 11, 15, 20, 7>>,
       <<1, 14, 9, 2, 16, 6, 21, 12, 4, 5, 18, 13, 19, 17, 3, 10, 22, 8, 11, 15, 20, 7>>,
       <<16, 10, 1, 9, 18, 13, 2, 14, 6, 3, 12, 21, 4, 5, 19, 17, 22, 23, 8, 11, 15, 20, 7>>,
       <<9, 17, 1, 19, 12, 10, 14, 2, 22, 6, 3, 13, 16, 4, 5, 23, 18, 21, 24, 8, 11, 15,
         20, 7>>,
       <<9, 17, 1, 24, 12, 10, 14, 2, 23, 6, 3, 13, 16, 4, 5, 21, 18, 22, 19, 25, 8, 11,
         15, 20, 7>>,
       <<9, 17, 1, 25, 12, 10, 14, 2, 24, 6, 3, 13, 16, 4, 5, 22, 18, 23, 19, 26, 21, 8,
         11, 15, 20, 7>> >>

\* ceil(test_size * n) for test_size = 0.2
n_test(n) == (n + 4) \div 5

\* train_test_split raises ValueError when a partition would be empty
CanSplit(rows) == Len(rows) - n_test(Len(rows)) >= 1

\* variant: random_state=None, the shuffle differs from run to run
train_test_split_Unseeded(rows) ==
    LET n == Len(rows)
        p == permutation[n]
        q == [k \in 1..n |-> p[((k + trainerRuns - 1) % n) + 1]]
    IN [test |-> [k \in 1..n_test(n) |-> rows[q[k]]],
        train |-> [k \in 1..(n - n_test(n)) |-> rows[q[n_test(n) + k]]]]

\* train_test_split(X, y, test_size=0.2, random_state=42): the first n_test
\* rows of the shuffle are the test partition, the others the training one
train_test_split(rows) ==
    LET n == Len(rows)
        p == permutation[n]
    IN [test |-> [k \in 1..n_test(n) |-> rows[p[k]]],
        train |-> [k \in 1..(n - n_test(n)) |-> rows[p[n_test(n) + k]]]]

\* 14 times the value of a numeric feature: a whole number, since the
\* averages are over 7 and 14 whole prices
Value14(r, f) ==
    IF f \in {"Lag_1", "Lag_2"} THEN 14 * r[f] ELSE (14 * r[f][1]) \div r[f][2]

Column14(rows, f) == [k \in 1..Len(rows) |-> Value14(rows[k], f)]

MinOf(s) == CHOOSE x \in Range(s) : \A y \in Range(s) : x <= y

MaxOf(s) == CHOOSE x \in Range(s) : \A y \in Range(s) : x >= y

unfitted == [kind |-> "unfitted"]

\* StandardScaler().fit(rows): per feature the mean and the (population)
\* variance of the column; for Volatility, held symbolically, the column
StandardScaler_fit(rows) ==
    LET n == Len(rows) IN
    [kind |-> "StandardScaler",
     n_samples_seen_ |-> n,
     mean_ |-> [f \in features |->
                  IF f \in NumericFeatures
                  THEN Rat(SumSeq(Column14(rows, f)), 14 * n)
                  ELSE [k \in 1..n |-> rows[k][f]]],
     var_ |-> [f \in features |->
                  IF f \in NumericFeatures
                  THEN LET c == Column14(rows, f)
                           sq == [k \in 1..n |-> c[k] * c[k]]
                       IN Rat(n * SumSeq(sq) - SumSeq(c) * SumSeq(c), 196 * n * n)
                  ELSE [k \in 1..n |-> rows[k][f]]]]

\* MinMaxScaler().fit(rows): per feature the least and the greatest value
\* of the column; for Volatility, held symbolically, the column
MinMaxScaler_fit(rows) ==
    LET n == Len(rows) IN
    [kind |-> "MinMaxScaler",
     n_samples_seen_ |-> n,
     data_min_ |-> [f \in features |->
                      IF f \in NumericFeatures
                      THEN Rat(MinOf(Column14(rows, f)), 14)
                      ELSE [k \in 1..n |-> rows[k][f]]],
     data_max_ |-> [f \in features |->
                      IF f \in NumericFeatures
                      THEN Rat(MaxOf(Column14(rows, f)), 14)
                      ELSE [k \in 1..n |-> rows[k][f]]]]

\* scaler.transform(rows): each feature cell x becomes (x - mean) / sqrt(var),
\* or (x - min) / (max - min), written as the triple it is computed from
transform(sc, rows) ==
    LET cell(r, f) ==
            IF sc.kind = "StandardScaler"
            THEN <<r[f], sc.mean_[f], sc.var_[f]>>
            ELSE <<r[f], sc.data_min_[f], sc.data_max_[f]>>
    IN [k \in 1..Len(rows) |->
           [pos |-> rows[k].pos,
            MA7 |-> cell(rows[k], "MA7"), MA14 |-> cell(rows[k], "MA14"),
            Volatility |-> cell(rows[k], "Volatility"),
            Lag_1 |-> cell(rows[k], "Lag_1"), Lag_2 |-> cell(rows[k], "Lag_2"),
            AdjClose |-> rows[k].AdjClose]]

\* what a saved file holds: the run that wrote it and the object
model_file(run, m) == [run |-> run, kind |-> m.kind, fit_on |-> m.fit_on]

scaler_file(run, sc) == [run |-> run, scaler |-> sc]

\* joblib.dump / model.save: the file is created or overwritten
dump(files, name, content) ==
    [n \in (DOMAIN files) \cup {name} |-> IF n = name THEN content ELSE files[n]]

\* the kernel of a notebook that is not running
KernelInit ==
    /\ notebook = "none"
    /\ pc = "idle"
    /\ data = <<>>
    /\ X = <<>>
    /\ X_scaled = <<>>
    /\ X_train = <<>>
    /\ X_test = <<>>
    /\ scaler = unfitted
    /\ X_train_scaled = <<>>
    /\ X_test_scaled = <<>>
    /\ model = [kind |-> "none"]
    /\ early_stopping = [kind |-> "none"]
    /\ history = <<>>
    /\ loss_curve = [kind |-> "none"]
    /\ y_pred = [kind |-> "none"]

\* EarlyStopping(monitor='val_loss', patience=10, restore_best_weights=True)
patience == 10

\* model.fit(..., epochs=50, ...)
epochs == 50

\* The validation loss of epoch d = 1, 2, ... of a training run: falling
\* by one per epoch up to epoch `turn`, afterwards level ("flat"), rising
\* ("rise"), or rising with one new minimum `recover` epochs after the
\* turn ("dip").
val_loss(c, d) ==
    LET low == 2 * epochs - c.turn IN
    IF d <= c.turn THEN 2 * epochs - d
    ELSE CASE c.after = "flat" -> low
           [] c.after = "rise" -> low + (d - c.turn)
           [] OTHER -> IF d < c.turn + c.recover THEN low + 1
                       ELSE IF d = c.turn + c.recover THEN low - 1
                       ELSE low

\* the courses of the validation loss considered for a training run
LossCurves ==
    { [turn |-> t, after |-> "flat", recover |-> 0] :
        t \in {1, epochs - patience, epochs - patience + 1, epochs} } \cup
    { [turn |-> epochs - patience - 1, after |-> "rise", recover |-> 0],
      [turn |-> 1, after |-> "dip", recover |-> patience],
      [turn |-> epochs - 2 * patience, after |-> "dip", recover |-> patience + 1] }

\* EarlyStopping.on_train_begin
on_train_begin ==
    [kind |-> "EarlyStopping", wait |-> 0, stopped_epoch |-> 0, best |-> NaN,
     best_weights |-> NaN, best_epoch |-> 0]

\* EarlyStopping._is_improvement with min_delta = 0, mode min
is_improvement(current, best) == best = NaN \/ current < best

\* variant: restore_best_weights=False
on_train_end_NoRestore(cb, m) == m

\* EarlyStopping.on_train_end: the best weights are put back
on_train_end(cb, m) ==
    IF cb.best_weights # NaN THEN [m EXCEPT !.weights = cb.best_weights] ELSE m

\* A trainer notebook is opened and its first cell run:
\* data = pd.read_sql("SELECT * FROM processed_stocks")
Load ==
    /\ pc = "idle"
    /\ trainerRuns < MaxTrainerRuns
    /\ \E k \in ModelKinds : notebook' = k
    /\ data' = processed
    /\ pc' = "loaded"
    /\ trainerRuns' = trainerRuns + 1
    /\ UNCHANGED <<stocks, processed, fetchIdx, log, attempts, engineRuns, artifacts>>
    /\ UNCHANGED <<X, X_scaled, X_train, X_test, scaler, X_train_scaled, X_test_scaled,
                   model, early_stopping, history, loss_curve, y_pred>>

\* A trainer notebook is opened and its first cell raises: sqlite3.connect
\* or pd.read_sql fails (database locked, table missing)
LoadRaise ==
    /\ pc = "idle"
    /\ trainerRuns < MaxTrainerRuns
    /\ \E k \in ModelKinds : notebook' = k
    /\ pc' = "failed"
    /\ trainerRuns' = trainerRuns + 1
    /\ UNCHANGED <<stocks, processed, fetchIdx, log, attempts, engineRuns, artifacts>>
    /\ UNCHANGED <<data, X, X_scaled, X_train, X_test, scaler, X_train_scaled,
                   X_test_scaled, model, early_stopping, history, loss_curve, y_pred>>

\* ticker filter, features and target
SelectTicker ==
    /\ pc = "loaded"
    /\ X' = DefineXy(ticker_data(data))
    /\ pc' = "xy"
    /\ UNCHANGED <<stocks, processed, fetchIdx, log, attempts, engineRuns, artifacts,
                   trainerRuns>>
    /\ UNCHANGED <<notebook, data, X_scaled, X_train, X_test, scaler, X_train_scaled,
                   X_test_scaled, model, early_stopping, history, loss_curve, y_pred>>

\* a cell raises: the run stops where it is
Raise ==
    /\ pc' = "failed"
    /\ UNCHANGED <<stocks, processed, fetchIdx, log, attempts, engineRuns, artifacts,
                   trainerRuns>>
    /\ UNCHANGED <<notebook, data, X, X_scaled, X_train, X_test, scaler, X_train_scaled,
                   X_test_scaled, model, early_stopping, history, loss_curve, y_pred>>

\* Random Forest, Step 4: train_test_split(X, y, ...)
RF_Split ==
    /\ notebook = "rf"
    /\ pc = "xy"
    /\ IF CanSplit(X)
       THEN /\ X_train' = train_test_split(X).train
            /\ X_test' = train_test_split(X).test
            /\ pc' = "split"
            /\ UNCHANGED <<stocks, processed, fetchIdx, log, attempts, engineRuns,
                           artifacts, trainerRuns>>
            /\ UNCHANGED <<notebook, data, X, X_scaled, scaler, X_train_scaled,
                           X_test_scaled, model, early_stopping, history, loss_curve, y_pred>>
       ELSE Raise

\* variant: the scaler is fit on all rows
RF_FitTransformTrain_AllRows ==
    /\ notebook = "rf"
    /\ pc = "split"
    /\ scaler' = StandardScaler_fit(X)
    /\ X_train_scaled' = transform(scaler', X_train)
    /\ pc' = "fitted"
    /\ UNCHANGED <<stocks, processed, fetchIdx, log, attempts, engineRuns, artifacts,
                   trainerRuns>>
    /\ UNCHANGED <<notebook, data, X, X_scaled, X_train, X_test, X_test_scaled, model,
                   early_stopping, history, loss_curve, y_pred>>

\* Random Forest, Step 5: X_train_scaled = scaler.fit_transform(X_train)
RF_FitTransformTrain ==
    /\ notebook = "rf"
    /\ pc = "split"
    /\ scaler' = StandardScaler_fit(X_train)
    /\ X_train_scaled' = transform(scaler', X_train)
    /\ pc' = "fitted"
    /\ UNCHANGED <<stocks, processed, fetchIdx, log, attempts, engineRuns, artifacts,
                   trainerRuns>>
    /\ UNCHANGED <<notebook, data, X, X_scaled, X_train, X_test, X_test_scaled, model,
                   early_stopping, history, loss_curve, y_pred>>

\* variant: the test partition is scaled with fit_transform
RF_TransformTest_Refit ==
    /\ notebook = "rf"
    /\ pc = "fitted"
    /\ scaler' = StandardScaler_fit(X_test)
    /\ X_test_scaled' = transform(scaler', X_test)
    /\ pc' = "scaled"
    /\ UNCHANGED <<stocks, processed, fetchIdx, log, attempts, engineRuns, artifacts,
                   trainerRuns>>
    /\ UNCHANGED <<notebook, data, X, X_scaled, X_train, X_test, X_train_scaled, model,
                   early_stopping, history, loss_curve, y_pred>>

\* Random Forest, Step 5: X_test_scaled = scaler.transform(X_test)
RF_TransformTest ==
    /\ notebook = "rf"
    /\ pc = "fitted"
    /\ X_test_scaled' = transform(scaler, X_test)
    /\ pc' = "scaled"
    /\ UNCHANGED <<stocks, processed, fetchIdx, log, attempts, engineRuns, artifacts,
                   trainerRuns>>
    /\ UNCHANGED <<notebook, data, X, X_scaled, X_train, X_test, scaler, X_train_scaled,
                   model, early_stopping, history, loss_curve, y_pred>>

\* variant: the fitted model is written to its file at once
RF_Fit_Saving ==
    /\ notebook = "rf"
    /\ pc = "scaled"
    /\ model' = [kind |-> "rf", fit_on |-> PosOf(X_train_scaled)]
    /\ artifacts' = dump(artifacts, model_filename(default_ticker, notebook),
                         model_file(trainerRuns, model'))
    /\ pc' = "trained"
    /\ UNCHANGED <<stocks, processed, fetchIdx, log, attempts, engineRuns, trainerRuns>>
    /\ UNCHANGED <<notebook, data, X, X_scaled, X_train, X_test, scaler, X_train_scaled,
                   X_test_scaled, early_stopping, history, loss_curve, y_pred>>

\* Random Forest, Step 6: model.fit(X_train_scaled, y_train)
RF_Fit ==
    /\ notebook = "rf"
    /\ pc = "scaled"
    /\ model' = [kind |-> "rf", fit_on |-> PosOf(X_train_scaled)]
    /\ pc' = "trained"
    /\ UNCHANGED <<stocks, processed, fetchIdx, log, attempts, engineRuns, artifacts,
                   trainerRuns>>
    /\ UNCHANGED <<notebook, data, X, X_scaled, X_train, X_test, scaler, X_train_scaled,
                   X_test_scaled, early_stopping, history, loss_curve, y_pred>>

\* LSTM: X_scaled = scaler.fit_transform(X), before the split; with no row
\* the fit raises ValueError
LSTM_FitTransform ==
    /\ notebook = "lstm"
    /\ pc = "xy"
    /\ IF X # <<>>
       THEN /\ scaler' = MinMaxScaler_fit(X)
            /\ X_scaled' = transform(scaler', X)
            /\ pc' = "scaled_all"
            /\ UNCHANGED <<stocks, processed, fetchIdx, log, attempts, engineRuns,
                           artifacts, trainerRuns>>
            /\ UNCHANGED <<notebook, data, X, X_train, X_test, X_train_scaled,
                           X_test_scaled, model, early_stopping, history, loss_curve, y_pred>>
       ELSE Raise

\* LSTM: train_test_split(X_scaled, y, ...)
LSTM_Split ==
    /\ notebook = "lstm"
    /\ pc = "scaled_all"
    /\ IF CanSplit(X_scaled)
       THEN /\ X_train' = train_test_split(X_scaled).train
            /\ X_test' = train_test_split(X_scaled).test
            /\ pc' = "split"
            /\ UNCHANGED <<stocks, processed, fetchIdx, log, attempts, engineRuns,
                           artifacts, trainerRuns>>
            /\ UNCHANGED <<notebook, data, X, X_scaled, scaler, X_train_scaled,
                           X_test_scaled, model, early_stopping, history, loss_curve, y_pred>>
       ELSE Raise

\* LSTM: reshape to (samples, 1, features)
LSTM_Reshape ==
    /\ notebook = "lstm"
    /\ pc = "split"
    /\ X_train_scaled' = X_train
    /\ X_test_scaled' = X_test
    /\ pc' = "scaled"
    /\ UNCHANGED <<stocks, processed, fetchIdx, log, attempts, engineRuns, artifacts,
                   trainerRuns>>
    /\ UNCHANGED <<notebook, data, X, X_scaled, X_train, X_test, scaler, model,
                   early_stopping, history, loss_curve, y_pred>>

\* variant: validation_split: the loss is monitored on rows set apart
\* from the training partition
LSTM_FitBegin_ValidationSplit ==
    /\ notebook = "lstm"
    /\ pc = "scaled"
    /\ \E c \in LossCurves : loss_curve' = c
    /\ model' = [kind |-> "lstm",
                 fit_on |-> SubSeq(PosOf(X_train_scaled), 1, Len(X_train_scaled) - 1),
                 validation_data |-> SubSeq(PosOf(X_train_scaled), Len(X_train_scaled),
                                            Len(X_train_scaled)),
                 weights |-> 0, stop_training |-> FALSE]
    /\ early_stopping' = on_train_begin
    /\ history' = <<>>
    /\ pc' = "training"
    /\ UNCHANGED <<stocks, processed, fetchIdx, log, attempts, engineRuns, artifacts,
                   trainerRuns>>
    /\ UNCHANGED <<notebook, data, X, X_scaled, X_train, X_test, scaler, X_train_scaled,
                   X_test_scaled, y_pred>>

\* LSTM: the model is built and compiled and model.fit(X_train_scaled,
\* y_train, validation_data=(X_test_scaled, y_test), ...) begins; the
\* course the validation loss will take is an input of the run
LSTM_FitBegin ==
    /\ notebook = "lstm"
    /\ pc = "scaled"
    /\ \E c \in LossCurves : loss_curve' = c
    /\ model' = [kind |-> "lstm", fit_on |-> PosOf(X_train_scaled),
                 validation_data |-> PosOf(X_test_scaled),
                 weights |-> 0, stop_training |-> FALSE]
    /\ early_stopping' = on_train_begin
    /\ history' = <<>>
    /\ pc' = "training"
    /\ UNCHANGED <<stocks, processed, fetchIdx, log, attempts, engineRuns, artifacts,
                   trainerRuns>>
    /\ UNCHANGED <<notebook, data, X, X_scaled, X_train, X_test, scaler, X_train_scaled,
                   X_test_scaled, y_pred>>

\* EarlyStopping.on_epoch_end(epoch, current) for an epoch that left the
\* model with weights w: the callback and whether training is to stop
on_epoch_end(cb, epoch, current, w) ==
    LET cb1 == IF cb.best_weights = NaN
               THEN [cb EXCEPT !.best_weights = w, !.best_epoch = epoch]
               ELSE cb
        cb2 == [cb1 EXCEPT !.wait = @ + 1]
    IN IF is_improvement(current, cb2.best)
       THEN [cb |-> [cb2 EXCEPT !.best = current, !.best_epoch = epoch,
                                !.best_weights = w, !.wait = 0],
             stop |-> FALSE]
       ELSE IF cb2.wait >= patience /\ epoch > 0
            THEN [cb |-> [cb2 EXCEPT !.stopped_epoch = epoch], stop |-> TRUE]
            ELSE [cb |-> cb2, stop |-> FALSE]

\* LSTM: one epoch of model.fit (epoch index Len(history), from 0): the
\* weights are updated, the validation loss recorded, the callback called
LSTM_Epoch ==
    /\ notebook = "lstm"
    /\ pc = "training"
    /\ Len(history) < epochs
    /\ ~model.stop_training
    /\ LET epoch == Len(history)
           current == val_loss(loss_curve, epoch + 1)
           end == on_epoch_end(early_stopping, epoch, current, epoch + 1)
       IN /\ history' = Append(history, current)
          /\ early_stopping' = end.cb
          /\ model' = [model EXCEPT !.weights = epoch + 1, !.stop_training = end.stop]
    /\ UNCHANGED <<stocks, processed, fetchIdx, log, attempts, engineRuns, artifacts,
                   trainerRuns>>
    /\ UNCHANGED <<notebook, pc, data, X, X_scaled, X_train, X_test, scaler,
                   X_train_scaled, X_test_scaled, loss_curve, y_pred>>

\* LSTM: model.fit returns, after the last epoch or when the callback
\* stopped it, through the callback's on_train_end
LSTM_TrainEnd ==
    /\ notebook = "lstm"
    /\ pc = "training"
    /\ Len(history) = epochs \/ model.stop_training
    /\ model' = on_train_end(early_stopping, model)
    /\ pc' = "trained"
    /\ UNCHANGED <<stocks, processed, fetchIdx, log, attempts, engineRuns, artifacts,
                   trainerRuns>>
    /\ UNCHANGED <<notebook, data, X, X_scaled, X_train, X_test, scaler, X_train_scaled,
                   X_test_scaled, early_stopping, history, loss_curve, y_pred>>

\* y_pred = model.predict(X_test_scaled) and the scores of y_pred against
\* y_test
Evaluate ==
    /\ pc = "trained"
    /\ y_pred' = [kind |-> "prediction", on |-> PosOf(X_test_scaled), by |-> model]
    /\ pc' = "evaluated"
    /\ UNCHANGED <<stocks, processed, fetchIdx, log, attempts, engineRuns, artifacts,
                   trainerRuns>>
    /\ UNCHANGED <<notebook, data, X, X_scaled, X_train, X_test, scaler, X_train_scaled,
                   X_test_scaled, model, early_stopping, history, loss_curve>>

\* joblib.dump(model, model_filename) / model.save(model_filename)
SaveModel ==
    /\ pc = "evaluated"
    /\ artifacts' = dump(artifacts, model_filename(default_ticker, notebook),
                         model_file(trainerRuns, model))
    /\ pc' = "model_saved"
    /\ UNCHANGED <<stocks, processed, fetchIdx, log, attempts, engineRuns, trainerRuns>>
    /\ UNCHANGED <<notebook, data, X, X_scaled, X_train, X_test, scaler, X_train_scaled,
                   X_test_scaled, model, early_stopping, history, loss_curve, y_pred>>

\* joblib.dump(scaler, scaler_filename): the last cell
SaveScaler ==
    /\ pc = "model_saved"
    /\ artifacts' = dump(artifacts, scaler_filename(default_ticker, notebook),
                         scaler_file(trainerRuns, scaler))
    /\ pc' = "done"
    /\ UNCHANGED <<stocks, processed, fetchIdx, log, attempts, engineRuns, trainerRuns>>
    /\ UNCHANGED <<notebook, data, X, X_scaled, X_train, X_test, scaler, X_train_scaled,
                   X_test_scaled, model, early_stopping, history, loss_curve, y_pred>>

\* joblib.dump or model.save raises (models/ missing, disk full): the save
\* cell stops there, what it has written stays
SaveRaise ==
    /\ pc \in {"evaluated", "model_saved"}
    /\ Raise

\* the notebook is closed after its last cell, or after the cell that raised
CloseKernel ==
    /\ pc \in {"done", "failed"}
    /\ notebook' = "none"
    /\ pc' = "idle"
    /\ data' = <<>>
    /\ X' = <<>>
    /\ X_scaled' = <<>>
    /\ X_train' = <<>>
    /\ X_test' = <<>>
    /\ scaler' = unfitted
    /\ X_train_scaled' = <<>>
    /\ X_test_scaled' = <<>>
    /\ model' = [kind |-> "none"]
    /\ early_stopping' = [kind |-> "none"]
    /\ history' = <<>>
    /\ loss_curve' = [kind |-> "none"]
    /\ y_pred' = [kind |-> "none"]
    /\ UNCHANGED <<stocks, processed, fetchIdx, log, attempts, engineRuns, artifacts,
                   trainerRuns>>

\* what a Random Forest run started on table `frame` leaves in its kernel
rf_run(frame) ==
    LET s == train_test_split(DefineXy(ticker_data(frame)))
    IN [model |-> [kind |-> "rf", fit_on |-> PosOf(s.train)],
        scaler |-> StandardScaler_fit(s.train)]

\* what an LSTM run started on table `frame` leaves in its kernel
lstm_run(frame) ==
    LET xy == DefineXy(ticker_data(frame))
    IN [model |-> [kind |-> "lstm", fit_on |-> PosOf(train_test_split(xy).train)],
        scaler |-> MinMaxScaler_fit(xy)]

\* A trainer notebook is run from its first to its last cell (Run All) and
\* closed: it reads processed_stocks and writes its two files.  (With
\* fewer than two rows for the ticker the split raises and nothing is
\* written.)
RunTrainer ==
    /\ fetchIdx = 0
    /\ pc = "idle"
    /\ trainerRuns < MaxTrainerRuns
    /\ CanSplit(ticker_data(processed))
    /\ trainerRuns' = trainerRuns + 1
    /\ \E kind \in ModelKinds :
          LET run == IF kind = "rf" THEN rf_run(processed) ELSE lstm_run(processed)
          IN artifacts' =
                dump(dump(artifacts, model_filename(default_ticker, kind),
                          model_file(trainerRuns', run.model)),
                     scaler_filename(default_ticker, kind),
                     scaler_file(trainerRuns', run.scaler))
    /\ UNCHANGED <<stocks, processed, fetchIdx, log, attempts, engineRuns>>
    /\ UNCHANGED <<notebook, pc, data, X, X_scaled, X_train, X_test, scaler,
                   X_train_scaled, X_test_scaled, model, early_stopping, history,
                   loss_curve, y_pred>>

----------------------------------------------------------------------------

Init ==
    /\ stocks = <<>>
    /\ processed = <<>>
    /\ fetchIdx = 0
    /\ log = <<>>
    /\ attempts = 0
    /\ engineRuns = 0
    /\ artifacts = <<>>
    /\ trainerRuns = 0
    /\ KernelInit

Next ==
    \/ StartFetcher
    \/ FetchStore
    \/ FetchError
    \/ RunFeatureEngine
    \/ RunTrainer

Spec == Init /\ [][Next]_vars

\* The Fetcher alone, each started run going on to its end: the loop over
\* the ticker list has no wait and no exit but its last iteration.
FetcherNext == StartFetcher \/ FetchStore \/ FetchError

SpecFetcher == Init /\ [][FetcherNext]_vars /\ WF_vars(FetchStore \/ FetchError)

\* The trainers, cell by cell, on the tables a Fetcher and a Feature Engine
\* run leave: XOM stored by one run, or by two runs that downloaded the
\* same, the engine run afterwards.
TrainerInit ==
    /\ \E d1 \in Downloads(default_ticker) :
       \E d2 \in {d1, [len |-> 0, defect |-> "none", at |-> 0]} :
          /\ stocks = stock_data(1, d1) \o stock_data(1, d2)
          /\ log = [i \in 1..NumTickers |->
                       IF i = 1
                       THEN [ticker |-> stocks_list[i].ticker,
                             status |-> IF d2.len = 0 THEN "error" ELSE "saved",
                             cause |-> IF d2.len = 0 THEN "download" ELSE "none"]
                       ELSE [ticker |-> stocks_list[i].ticker, status |-> "error",
                             cause |-> "download"]]
    /\ processed = processed_data(stocks)
    /\ fetchIdx = 0
    /\ attempts = 2 * NumTickers
    /\ engineRuns = 1
    /\ artifacts = <<>>
    /\ trainerRuns = 0
    /\ KernelInit

TrainerNext ==
    \/ Load
    \/ LoadRaise
    \/ SelectTicker
    \/ RF_Split
    \/ RF_FitTransformTrain
    \/ RF_TransformTest
    \/ RF_Fit
    \/ LSTM_FitTransform
    \/ LSTM_Split
    \/ LSTM_Reshape
    \/ LSTM_FitBegin
    \/ LSTM_Epoch
    \/ LSTM_TrainEnd
    \/ Evaluate
    \/ SaveModel
    \/ SaveScaler
    \/ SaveRaise
    \/ CloseKernel

SpecTrainer == TrainerInit /\ [][TrainerNext]_vars

----------------------------------------------------------------------------
(* Reading the two tables *)

Last(s) == s[Len(s)]

\* the raw columns of a row
RawOf(r) ==
    [Date |-> r.Date, AdjClose |-> r.AdjClose, Volume |-> r.Volume,
     Company |-> r.Company, Ticker |-> r.Ticker]

RawSeq(rows) == [k \in 1..Len(rows) |-> RawOf(rows[k])]

\* the rows of ticker t in `stocks`, in table order
RawRows(t) == SelectSeq(stocks, LAMBDA r : r.Ticker = t)

\* the rows of ticker t in `processed_stocks`, in table order
Out(t) == SelectSeq(processed, LAMBDA r : r.Ticker = t)

\* the partition of ticker t: its rows with a numeric adjusted close, in
\* table order
Partition(t) == SelectSeq(stocks, LAMBDA r : r.Ticker = t /\ r.AdjClose >= 0)

\* positions of the partition from the 14th on whose raw columns are all present
KeptPos(t) ==
    LET P == Partition(t)
    IN SelectSeq([i \in 1..Len(P) |-> i], LAMBDA i : i >= 14 /\ P[i].Volume >= 0)

\* sum of the adjusted close over positions a..b of a partition
RECURSIVE AdjSum(_, _, _)
AdjSum(P, a, b) == IF a > b THEN 0 ELSE P[a].AdjClose + AdjSum(P, a + 1, b)

\* the fraction q is the mean of the adjusted close over positions a..b
IsMean(q, P, a, b) == q[2] > 0 /\ q[1] * (b - a + 1) = AdjSum(P, a, b) * q[2]

\* rows in ascending date order, rows of one date in their given order
RECURSIVE InsertByDate(_, _)
InsertByDate(sorted, r) ==
    IF sorted = <<>> THEN <<r>>
    ELSE IF Last(sorted).Date <= r.Date THEN Append(sorted, r)
    ELSE Append(InsertByDate(SubSeq(sorted, 1, Len(sorted) - 1), r), Last(sorted))

RECURSIVE SortByDate(_)
SortByDate(rows) ==
    IF rows = <<>> THEN <<>>
    ELSE InsertByDate(SortByDate(SubSeq(rows, 1, Len(rows) - 1)), Last(rows))


\* processed_stocks is the output of a Feature Engine run on the present stocks
Engineered == engineRuns >= 1

----------------------------------------------------------------------------
(* C1: after a Feature Engine run the processed rows of every ticker are   *)
(* a strict suffix of the ticker's raw rows in chronological order: no     *)
(* retained row is older than a dropped one, and the oldest are dropped.   *)

C1_StrictChronologicalSuffix ==
    Engineered =>
        \A t \in Tickers :
            LET chrono == RawSeq(SortByDate(RawRows(t)))
                n == Len(chrono)
            IN n > 0 =>
                 \E k \in 1..n : RawSeq(Out(t)) = SubSeq(chrono, k + 1, n)

----------------------------------------------------------------------------
(* C2: the warm-up cutoff is exact.  For a ticker whose partition has n    *)
(* rows with every value present, the processed rows are the rows at       *)
(* 0-based positions 13..n-1 of the partition, none when n < 14; for the   *)
(* 15-row XOM series 10..24 they are the rows of day 14 and day 15.        *)

AllPresent(t) ==
    \A k \in 1..Len(RawRows(t)) :
        RawRows(t)[k].AdjClose >= 0 /\ RawRows(t)[k].Volume >= 0

IsXOMScenario ==
    /\ Len(RawRows("XOM")) = 15
    /\ \A d \in 1..15 :
          /\ RawRows("XOM")[d].Date = d
          /\ RawRows("XOM")[d].AdjClose = 9 + d
          /\ RawRows("XOM")[d].Volume >= 0

C2_WarmUpCutoff ==
    Engineered =>
        /\ \A t \in Tickers :
              AllPresent(t) =>
                  LET n == Len(RawRows(t))
                  IN RawSeq(Out(t)) =
                        IF n < 14 THEN <<>> ELSE SubSeq(RawSeq(RawRows(t)), 14, n)
        /\ IsXOMScenario =>
              [j \in 1..Len(Out("XOM")) |-> Out("XOM")[j].Date] = <<14, 15>>

C2_Witness ==
    /\ Engineered
    /\ IsXOMScenario
    /\ Len(Out("XOM")) = 2

----------------------------------------------------------------------------
(* C3: in every retained row, at position i of its ticker's partition,     *)
(* the 7-day MA is the mean of the adjusted close over rows i-6..i and     *)
(* the 14-day MA the mean over rows i-13..i of that partition; the 7-day   *)
(* MA is first defined at the 7th row, as the mean of the first 7 rows.    *)

C3_MovingAverages ==
    Engineered =>
        \A t \in Tickers :
            LET P == Partition(t)
                kept == KeptPos(t)
                f == GroupFeatures(P)
            IN /\ Len(Out(t)) = Len(kept)
               /\ \A j \in 1..Len(kept) :
                     /\ RawOf(Out(t)[j]) = RawOf(P[kept[j]])
                     /\ IsMean(Out(t)[j].MA7, P, kept[j] - 6, kept[j])
                     /\ IsMean(Out(t)[j].MA14, P, kept[j] - 13, kept[j])
               /\ \A i \in 1..Len(P) :
                     IF i < 7 THEN f[i].MA7 = NaNRat
                     ELSE IsMean(f[i].MA7, P, i - 6, i)

C3_Witness ==
    /\ Engineered
    /\ \E t \in Tickers :
          /\ Len(Out(t)) >= 2
          /\ Out(t)[1].MA7 # Out(t)[1].MA14
          /\ Out(t)[1].MA7 # Out(t)[2].MA7

----------------------------------------------------------------------------
(* C4: in every retained row, at position i of its ticker's partition,     *)
(* Lag_1 is the adjusted close of row i-1 and Lag_2 that of row i-2 of     *)
(* the same ticker.                                                        *)

C4_Lags ==
    Engineered =>
        \A t \in Tickers :
            LET P == Partition(t)
                kept == KeptPos(t)
            IN /\ Len(Out(t)) = Len(kept)
               /\ \A j \in 1..Len(kept) :
                     /\ RawOf(Out(t)[j]) = RawOf(P[kept[j]])
                     /\ Out(t)[j].Lag_1 = P[kept[j] - 1].AdjClose
                     /\ Out(t)[j].Lag_2 = P[kept[j] - 2].AdjClose

\* a retained row that directly follows, in the table, a row of another ticker
C4_Witness ==
    /\ Engineered
    /\ \E k \in 2..Len(stocks) :
          /\ stocks[k].Ticker # stocks[k - 1].Ticker
          /\ Len(SelectSeq(SubSeq(stocks, 1, k),
                           LAMBDA r : r.Ticker = stocks[k].Ticker /\ r.AdjClose >= 0)) >= 14
          /\ stocks[k].AdjClose >= 0 /\ stocks[k].Volume >= 0
          /\ Out(stocks[k].Ticker) # <<>>

----------------------------------------------------------------------------
(* C5: the Feature Engine is idempotent: a run on a stocks table that has  *)
(* not changed since the previous run leaves processed_stocks as it was.   *)
(* (A step that keeps stocks, the Fetcher position and the files, from a   *)
(* state after a run to a state after a run, is a further run.)            *)

C5_Idempotent ==
    [][(/\ engineRuns >= 1
        /\ engineRuns' >= 1
        /\ stocks' = stocks
        /\ fetchIdx' = fetchIdx
        /\ artifacts' = artifacts) => processed' = processed]_vars

C5_Witness == engineRuns = 2 /\ processed # <<>>

----------------------------------------------------------------------------
(* C6: a fetch exception for one ticker does not abort the batch: the      *)
(* loop goes on to the next ticker, a finished run has attempted every     *)
(* ticker in list order, and a fetch that succeeds stores its rows.        *)

C6_LogInOrder ==
    /\ \A i \in 1..Len(log) : log[i].ticker = stocks_list[i].ticker
    /\ Len(log) = IF fetchIdx = 0 THEN (IF log = <<>> THEN 0 ELSE NumTickers)
                  ELSE fetchIdx - 1

C6_FetchStep ==
    (fetchIdx \in 1..NumTickers /\ log' # log) =>
        /\ fetchIdx' = NextIdx(fetchIdx)
        /\ log' = Append(log, Last(log'))
        /\ Last(log').status = "error" => stocks' = stocks
        /\ Last(log').status = "saved" =>
              \E dl \in Downloads(stocks_list[fetchIdx].ticker) :
                  stocks' = stocks \o stock_data(fetchIdx, dl)

C6_FailureDoesNotAbort == [](C6_LogInOrder) /\ [][C6_FetchStep]_vars

\* a ticker failed, a later ticker of the same run was fetched and stored
C6_Witness ==
    /\ fetchIdx = 0
    /\ \E i \in 1..Len(log) : \E j \in (i + 1)..Len(log) :
          /\ log[i].status = "error"
          /\ log[j].status = "saved"
          /\ RawRows(log[j].ticker) # <<>>
          /\ RawRows(log[i].ticker) = <<>>

----------------------------------------------------------------------------
(* C7: no cross-ticker leakage: the processed rows of a ticker are what    *)
(* the Feature Engine gives on a table holding that ticker's rows alone,   *)
(* whatever the other tickers' rows are and however they are interleaved.  *)

C7_NoCrossTickerLeakage ==
    Engineered =>
        \A t \in Tickers : Out(t) = processed_data(RawRows(t))

\* rows of two tickers alternate in the table and both have processed rows
C7_Witness ==
    /\ Engineered
    /\ \E a, b, c \in 1..Len(stocks) :
          /\ a < b /\ b < c
          /\ stocks[a].Ticker = stocks[c].Ticker
          /\ stocks[a].Ticker # stocks[b].Ticker
          /\ Len(Out(stocks[a].Ticker)) > 2
          /\ Out(stocks[b].Ticker) # <<>>

----------------------------------------------------------------------------
(* C8: for every raw table the Fetcher can produce, the Feature Engine     *)
(* computes each ticker's derived values over the ticker's rows in         *)
(* ascending date order, whatever the order of the rows in the table.      *)

C8_ComputedInDateOrder ==
    Engineered =>
        \A t \in Tickers :
            Range(Out(t)) = Range(processed_data(SortByDate(RawRows(t))))

----------------------------------------------------------------------------
(* C9: (ticker, date) is a key of the stocks table: no two rows share      *)
(* both ticker and date.                                                   *)

C9_TickerDateIsKey ==
    \A i, j \in 1..Len(stocks) :
        (stocks[i].Ticker = stocks[j].Ticker /\ stocks[i].Date = stocks[j].Date)
            => i = j

----------------------------------------------------------------------------
(* C10: raw records are append-only: no step deletes or modifies a row of  *)
(* stocks, and only a fetch of the Fetcher adds rows.                      *)

IsPrefix(s, t) == Len(s) <= Len(t) /\ SubSeq(t, 1, Len(s)) = s

C10_AppendOnly ==
    [][/\ IsPrefix(stocks, stocks')
       /\ stocks' # stocks =>
             /\ fetchIdx \in 1..NumTickers
             /\ attempts' = attempts + 1
             /\ \A k \in (Len(stocks) + 1)..Len(stocks') :
                   stocks'[k].Ticker = stocks_list[fetchIdx].ticker]_vars

\* the Fetcher ran twice, the Feature Engine and a trainer ran
C10_Witness ==
    /\ Len(RawRows("XOM")) > MaxLen
    /\ processed # <<>>
    /\ DOMAIN artifacts # {}

----------------------------------------------------------------------------
(* C11: a raw row whose adjusted close is not numeric raises no error; it  *)
(* is removed before any feature is computed: no processed row carries a   *)
(* non-numeric value, the processed table is what it would be had the      *)
(* rows never been stored, and the returns in every volatility window are  *)
(* those of consecutive rows of the numeric partition.                     *)

NumericOnly(table) == SelectSeq(table, LAMBDA r : r.AdjClose >= 0)

\* the fraction q is the return from partition row a - 1 to partition row a
IsReturn(q, P, a) ==
    q[1] * P[a - 1].AdjClose = (P[a].AdjClose - P[a - 1].AdjClose) * q[2]

C11_NonNumericRemoved ==
    Engineered =>
        /\ \A k \in 1..Len(processed) :
              /\ processed[k].AdjClose >= 0
              /\ processed[k].Lag_1 >= 0
              /\ processed[k].Lag_2 >= 0
        /\ processed = processed_data(NumericOnly(stocks))
        /\ \A t \in Tickers :
              LET P == Partition(t)
                  kept == KeptPos(t)
              IN /\ Len(Out(t)) = Len(kept)
                 /\ \A j \in 1..Len(kept) :
                       /\ IsReturn(Out(t)[j].DailyReturn, P, kept[j])
                       /\ Len(Out(t)[j].Volatility) = 7
                       /\ \A m \in 1..7 :
                             IsReturn(Out(t)[j].Volatility[m], P, kept[j] - 7 + m)

\* a retained row whose 14-row window reaches over a removed non-numeric row
C11_Witness ==
    /\ Engineered
    /\ \E k \in 1..Len(stocks) : \E j \in 1..Len(processed) :
          /\ stocks[k].AdjClose = TEXT
          /\ processed[j].Ticker = stocks[k].Ticker
          /\ Len(RawRows(stocks[k].Ticker)) = MaxLen
          /\ processed[j].Date > stocks[k].Date

----------------------------------------------------------------------------
(* C17: apart from a failed download no failure is caught: a database      *)
(* error while a ticker's rows are stored ends the run and is never        *)
(* logged and skipped.                                                     *)

C17_DatabaseErrorNotCaught ==
    \A i \in 1..Len(log) : log[i].cause # "database"

----------------------------------------------------------------------------
(* C20: full replace: after a Feature Engine run processed_stocks holds    *)
(* exactly the rows derived from the whole present stocks table, one per   *)
(* stocks row that is numeric, complete and at least 14th in its ticker's  *)
(* partition, in table order, whatever the table held before.              *)

\* position of row k of the table within the numeric rows of its ticker
PartitionPos(table, k) ==
    Cardinality({j \in 1..k : /\ table[j].Ticker = table[k].Ticker
                              /\ table[j].AdjClose >= 0})

KeptIdx(table) ==
    SelectSeq([k \in 1..Len(table) |-> k],
              LAMBDA k : /\ table[k].AdjClose >= 0
                         /\ table[k].Volume >= 0
                         /\ PartitionPos(table, k) >= 14)

C20_FullReplace ==
    Engineered =>
        LET kept == KeptIdx(stocks)
        IN /\ Len(processed) = Len(kept)
           /\ \A j \in 1..Len(kept) :
                 /\ RawOf(processed[j]) = RawOf(stocks[kept[j]])
                 /\ processed[j].Lag_1 =
                        Partition(processed[j].Ticker)
                            [PartitionPos(stocks, kept[j]) - 1].AdjClose

\* the engine ran on a table that a second Fetcher run had extended
C20_Witness ==
    /\ Engineered
    /\ attempts > NumTickers
    /\ Len(processed) > 3
    /\ \E t \in Tickers : Len(RawRows(t)) > MaxLen /\ Len(Out(t)) > 2

----------------------------------------------------------------------------
(* Reading a trainer kernel *)

\* the feature rows of the ticker as they stand in processed_stocks
TableRows == DefineXy(ticker_data(processed))

\* the least whole number of rows that is at least 20% of n rows
Fifth(n) == CHOOSE m \in 0..n : 5 * m >= n /\ 5 * (m - 1) < n

\* the rows at the seed-42 training (test) positions of the table
TrainRows ==
    LET n == Len(TableRows)
    IN [k \in 1..(n - Fifth(n)) |-> TableRows[permutation[n][Fifth(n) + k]]]

TestRows ==
    LET n == Len(TableRows)
    IN [k \in 1..Fifth(n) |-> TableRows[permutation[n][k]]]

AfterSplit == {"split", "fitted", "scaled", "training", "trained", "evaluated",
               "model_saved", "done"}

AfterScaler == AfterSplit \ {"split"}

AfterFit == {"trained", "evaluated", "model_saved", "done"}

----------------------------------------------------------------------------
(* C12: in the Random Forest trainer the scaler is fit on the training     *)
(* partition only: its parameters are those of a StandardScaler fit on     *)
(* the rows at the training positions of the ticker's table, whatever the  *)
(* test rows are, and the test partition is scaled with these parameters.  *)

C12_ScalerFitOnTrainOnly ==
    (notebook = "rf" /\ pc \in AfterScaler) =>
        /\ scaler = StandardScaler_fit(TrainRows)
        /\ scaler.n_samples_seen_ = Len(TableRows) - Fifth(Len(TableRows))
        /\ X_train_scaled = transform(StandardScaler_fit(TrainRows), TrainRows)
        /\ pc # "fitted" =>
              X_test_scaled = transform(StandardScaler_fit(TrainRows), TestRows)
        /\ pc = "done" =>
              artifacts[scaler_filename(default_ticker, "rf")].scaler =
                  StandardScaler_fit(TrainRows)

\* the test partition holds a row whose lag is above every training row's
C12_Witness ==
    /\ notebook = "rf"
    /\ pc = "scaled"
    /\ \E k \in 1..Len(X_test) : \A j \in 1..Len(X_train) :
          X_test[k].Lag_1 > X_train[j].Lag_1

----------------------------------------------------------------------------
(* C13: in the LSTM trainer the fitted minima and maxima of the range      *)
(* scaler are those of the training partition and do not depend on a row   *)
(* of the test partition.                                                  *)

C13_RangeScalerFitOnTrainOnly ==
    (notebook = "lstm" /\ pc \in AfterSplit) =>
        \A f \in NumericFeatures :
            /\ scaler.data_min_[f] = MinMaxScaler_fit(TrainRows).data_min_[f]
            /\ scaler.data_max_[f] = MinMaxScaler_fit(TrainRows).data_max_[f]

----------------------------------------------------------------------------
(* C14: the scaler is stateless after fit: scaling the test partition      *)
(* leaves the fitted parameters as they were, and scaling the training     *)
(* partition again afterwards gives the values it gave before.             *)

C14_TestTransformStep ==
    (notebook = "rf" /\ pc = "fitted" /\ pc' = "scaled") =>
        /\ scaler' = scaler
        /\ X_train_scaled' = X_train_scaled
        /\ transform(scaler', X_train) = X_train_scaled

C14_SameAfterwards ==
    (notebook = "rf" /\ pc \in AfterScaler \ {"fitted"}) =>
        /\ transform(scaler, X_train) = X_train_scaled
        /\ transform(scaler, X_test) = X_test_scaled

C14_TransformStateless == [](C14_SameAfterwards) /\ [][C14_TestTransformStep]_vars

\* a test partition of several rows has been scaled
C14_Witness ==
    /\ notebook = "rf"
    /\ pc = "trained"
    /\ Len(X_test_scaled) >= 3
    /\ scaler.n_samples_seen_ = Len(X_train)

----------------------------------------------------------------------------
(* C15: LSTM training halts at the first epoch that ends 10 consecutive    *)
(* epochs without a new lowest validation loss (or after epoch 50), and    *)
(* when training has ended the model holds the weights of the epoch with   *)
(* the lowest validation loss, the earliest such epoch.                    *)

\* epoch e (from 1) brought a validation loss below all before it
Improved(h, e) == \A j \in 1..(e - 1) : h[e] < h[j]

\* epoch e ends `patience` consecutive epochs without improvement
Stale(h, e) ==
    /\ e > patience
    /\ \A j \in (e - patience + 1)..e : ~Improved(h, j)

BestEpoch(h) ==
    CHOOSE e \in 1..Len(h) :
        /\ \A j \in 1..Len(h) : h[e] <= h[j]
        /\ \A j \in 1..(e - 1) : h[j] > h[e]

C15_EarlyStopping ==
    /\ (notebook = "lstm" /\ pc = "training") =>
          /\ \A e \in 1..(Len(history) - 1) : ~Stale(history, e)
          /\ model.stop_training <=> Stale(history, Len(history))
    /\ (notebook = "lstm" /\ pc \in AfterFit) =>
          /\ \A e \in 1..(Len(history) - 1) : ~Stale(history, e)
          /\ Stale(history, Len(history)) \/ Len(history) = epochs
          /\ model.weights = BestEpoch(history)

\* training was stopped early and the last epoch was not the best one
C15_Witness ==
    /\ notebook = "lstm"
    /\ pc = "trained"
    /\ Len(history) < epochs
    /\ Len(history) > patience + 1
    /\ model.weights = Len(history) - patience

\* all epochs were run and an earlier epoch's weights put back
C15_WitnessNoStop ==
    /\ notebook = "lstm"
    /\ pc = "trained"
    /\ Len(history) = epochs
    /\ ~model.stop_training
    /\ model.weights < epochs

----------------------------------------------------------------------------
(* C16: the split is a reproducible 80/20 partition: training and test     *)
(* partition are disjoint, together they hold every row of the ticker      *)
(* once, the test partition holds 20% of the rows (rounded up to a whole   *)
(* row), and a run over the same rows as an earlier run gets the earlier   *)
(* run's partition.                                                        *)

C16_ReproduciblePartition ==
    pc \in AfterSplit =>
        LET rows == IF notebook = "rf" THEN X ELSE X_scaled
            n == Len(rows)
            tr == PosOf(X_train)
            te == PosOf(X_test)
        IN /\ Range(tr) \cap Range(te) = {}
           /\ Range(tr) \cup Range(te) = 1..n
           /\ Len(tr) + Len(te) = n
           /\ \A k \in 1..Len(tr) : X_train[k] = rows[tr[k]]
           /\ \A k \in 1..Len(te) : X_test[k] = rows[te[k]]
           /\ 5 * Len(te) >= n
           /\ 5 * (Len(te) - 1) < n
           /\ \A f \in DOMAIN artifacts :
                 "fit_on" \in DOMAIN artifacts[f] => artifacts[f].fit_on = tr

\* a second run has split 17 rows that an earlier run was fit on
C16_Witness ==
    /\ pc = "split"
    /\ Len(X_train) + Len(X_test) > MaxLen
    /\ (Len(X_train) + Len(X_test)) % 5 # 0
    /\ \E f \in DOMAIN artifacts : "fit_on" \in DOMAIN artifacts[f]

----------------------------------------------------------------------------
(* C18: a trainer run writes exactly two files, named from ticker and      *)
(* model kind alone; distinct (ticker, kind) pairs have distinct files, a  *)
(* run leaves every file of another pair as it was and overwrites its own. *)

FilesOf(t, k) == {model_filename(t, k), scaler_filename(t, k)}

AllTickers == {all_stocks[i].ticker : i \in 1..Len(all_stocks)}

C18_NamesDistinct ==
    /\ model_filename("XOM", "rf") = "models/model_XOM_rf.pkl"
    /\ scaler_filename("XOM", "rf") = "models/scaler_XOM_rf.pkl"
    /\ model_filename("XOM", "lstm") = "models/model_XOM_lstm.h5"
    /\ scaler_filename("XOM", "lstm") = "models/scaler_XOM_lstm.pkl"
    /\ \A t1, t2 \in AllTickers : \A k1, k2 \in ModelKinds :
          /\ Cardinality(FilesOf(t1, k1)) = 2
          /\ <<t1, k1>> # <<t2, k2>> => FilesOf(t1, k1) \cap FilesOf(t2, k2) = {}

C18_TwoFilesOfThisRun ==
    /\ C18_NamesDistinct
    /\ pc = "done" =>
          {f \in DOMAIN artifacts : artifacts[f].run = trainerRuns}
              = FilesOf(default_ticker, notebook)
    /\ pc = "evaluated" =>
          {f \in DOMAIN artifacts : artifacts[f].run = trainerRuns} = {}

C18_OthersUntouched ==
    \A f \in DOMAIN artifacts :
        /\ f \in DOMAIN artifacts'
        /\ f \notin FilesOf(default_ticker, notebook) => artifacts'[f] = artifacts[f]

C18_ArtifactNaming == [](C18_TwoFilesOfThisRun) /\ [][C18_OthersUntouched]_vars

\* the second run wrote its pair's files, the first run's pair is as it was
C18_Witness ==
    /\ pc = "done"
    /\ trainerRuns = 2
    /\ Cardinality(DOMAIN artifacts) = 4
    /\ \A f \in DOMAIN artifacts :
          artifacts[f].run = IF f \in FilesOf(default_ticker, notebook) THEN 2 ELSE 1

\* the second run was of the same notebook and overwrote the first run's files
C18_WitnessRerun ==
    /\ pc = "done"
    /\ trainerRuns = 2
    /\ DOMAIN artifacts = FilesOf(default_ticker, notebook)
    /\ \A f \in DOMAIN artifacts : artifacts[f].run = 2

----------------------------------------------------------------------------
(* C19: no retries: in a Fetcher run every ticker of the list is attempted *)
(* exactly once, in list order, whether the attempt succeeds or fails,     *)
(* and the run ends after the last ticker.                                 *)

C19_OncePerRun ==
    \A t \in Tickers : Cardinality({i \in 1..Len(log) : log[i].ticker = t}) <= 1

C19_AttemptStep ==
    attempts' # attempts =>
        /\ fetchIdx \in 1..NumTickers
        /\ attempts' = attempts + 1
        /\ log' = Append(log, Last(log'))
        /\ Last(log').ticker = stocks_list[fetchIdx].ticker
        /\ fetchIdx' = IF fetchIdx = NumTickers THEN 0 ELSE fetchIdx + 1

\* a run in progress whose remaining attempts are within the model's bound
C19_CanFinish ==
    /\ fetchIdx \in 1..NumTickers
    /\ attempts + (NumTickers - fetchIdx + 1) <= MaxFetches

C19_RunDone ==
    /\ fetchIdx = 0
    /\ Len(log) = NumTickers
    /\ \A i \in 1..NumTickers : log[i].ticker = stocks_list[i].ticker

C19_NoRetries ==
    /\ [](C19_OncePerRun)
    /\ [][C19_AttemptStep]_vars
    /\ (C19_CanFinish ~> C19_RunDone)

\* a run has ended in which the first ticker failed and was not tried again
C19_Witness ==
    /\ C19_RunDone
    /\ attempts = NumTickers
    /\ log[1].status = "error"
    /\ stocks # <<>>

----------------------------------------------------------------------------
(* C23: every row of processed_stocks has every column defined, raw and    *)
(* derived; a raw row with a missing value in another column than the      *)
(* adjusted close is left out of the output even when its derived fields   *)
(* are defined, and its adjusted close still enters the windows and lags   *)
(* of the rows after it.                                                   *)

\* row i of partition P has a missing raw value and enough rows before it
DroppedComplete(P, i) == i >= 14 /\ P[i].Volume = NaN

C23_AllColumnsDefined ==
    Engineered =>
        /\ \A k \in 1..Len(processed) :
              /\ processed[k].AdjClose >= 0
              /\ processed[k].Volume >= 0
              /\ processed[k].MA7 # NaNRat
              /\ processed[k].MA14 # NaNRat
              /\ processed[k].DailyReturn # NaNRat
              /\ processed[k].Volatility # NaNStd
              /\ processed[k].Lag_1 >= 0
              /\ processed[k].Lag_2 >= 0
        /\ \A t \in Tickers :
              LET P == Partition(t)
                  kept == KeptPos(t)
              IN /\ Len(Out(t)) = Len(kept)
                 /\ \A i \in 1..Len(P) :
                       DroppedComplete(P, i) =>
                           /\ \A j \in 1..Len(kept) : kept[j] # i
                           /\ \A j \in 1..Len(Out(t)) : RawOf(Out(t)[j]) # RawOf(P[i])
                 /\ \A j \in 1..Len(kept) :
                       /\ RawOf(Out(t)[j]) = RawOf(P[kept[j]])
                       /\ Out(t)[j].Lag_1 = P[kept[j] - 1].AdjClose
                       /\ Out(t)[j].Lag_2 = P[kept[j] - 2].AdjClose
                       /\ IsMean(Out(t)[j].MA7, P, kept[j] - 6, kept[j])
                       /\ IsMean(Out(t)[j].MA14, P, kept[j] - 13, kept[j])

\* a row with a missing volume is left out and is the lag of a retained row
C23_Witness ==
    /\ Engineered
    /\ \E t \in Tickers :
          LET P == Partition(t)
              kept == KeptPos(t)
          IN \E i \in 1..Len(P) : \E j \in 1..Len(kept) :
                /\ DroppedComplete(P, i)
                /\ kept[j] = i + 1
                /\ Len(Out(t)) = Len(kept)
                /\ Out(t)[j].Lag_1 = P[i].AdjClose

----------------------------------------------------------------------------
(* C22: LSTM training runs for up to 100 epochs, as the notebook's text    *)
(* says: it ends before epoch 100 only when early stopping has triggered.  *)

\* "Train the model for up to 100 epochs with a batch size of 128."
documented_epochs == 100

C22_UpTo100Epochs ==
    (notebook = "lstm" /\ pc \in AfterFit) =>
        \/ Len(history) = documented_epochs
        \/ Stale(history, Len(history))

----------------------------------------------------------------------------
(* C21: a trainer run writes nothing but its own two files, and only in    *)
(* its last cell, after the model was fit and evaluated; no step of a      *)
(* trainer changes a database table; a run that raises before that cell    *)
(* leaves every file as it was.                                            *)

\* the files written by the run in progress (or the last run)
FilesOfThisRun == {f \in DOMAIN artifacts : artifacts[f].run = trainerRuns}

C21_NothingBeforeSave ==
    pc \in {"loaded", "xy", "scaled_all", "split", "fitted", "scaled", "training",
            "trained", "evaluated"} => FilesOfThisRun = {}

C21_Step ==
    /\ stocks' = stocks
    /\ processed' = processed
    /\ artifacts' # artifacts =>
          /\ pc \in {"evaluated", "model_saved"}
          /\ model.kind = notebook
          /\ y_pred.kind = "prediction"
          /\ y_pred.by = model
          /\ \A f \in DOMAIN artifacts' :
                f \notin FilesOf(default_ticker, notebook) =>
                    f \in DOMAIN artifacts /\ artifacts'[f] = artifacts[f]
    /\ (pc' = "failed" /\ pc \notin {"evaluated", "model_saved"}) =>
          /\ artifacts' = artifacts
          /\ \A f \in DOMAIN artifacts' : artifacts'[f].run < trainerRuns'

C21_SaveIsLastStep == [](C21_NothingBeforeSave) /\ [][C21_Step]_vars

\* a run raised in its first cell; the files of the run before it are there
C21_Witness ==
    /\ pc = "failed"
    /\ data = <<>>
    /\ trainerRuns = 2
    /\ processed # <<>>
    /\ Cardinality(DOMAIN artifacts) = 2
    /\ \A f \in DOMAIN artifacts : artifacts[f].run = 1

\* a run raised at the split: the ticker has fewer than two processed rows
C21_WitnessNoRows ==
    /\ pc = "failed"
    /\ data = processed
    /\ stocks # <<>>
    /\ X_train = <<>>
    /\ artifacts = <<>>

----------------------------------------------------------------------------
(* C24: whenever no trainer run is in progress, the model file and the     *)
(* scaler file of a (ticker, kind) pair were written by the same run, also *)
(* after runs that failed part-way.                                        *)

C24_PairFromSameRun ==
    pc = "idle" =>
        \A k \in ModelKinds :
            LET m == model_filename(default_ticker, k)
                sc == scaler_filename(default_ticker, k)
            IN /\ m \in DOMAIN artifacts <=> sc \in DOMAIN artifacts
               /\ m \in DOMAIN artifacts => artifacts[m].run = artifacts[sc].run

----------------------------------------------------------------------------
(* C25: in the LSTM trainer the rows whose loss is monitored for early     *)
(* stopping and for the choice of the best weights are exactly the test    *)
(* partition that the final scores are computed on: every row is either a  *)
(* training row or one of these, and the evaluated model holds the weights *)
(* chosen by the loss on them.                                             *)

C25_ValidationIsTest ==
    /\ (notebook = "lstm" /\ pc = "training") =>
          model.validation_data = PosOf(TestRows)
    /\ (notebook = "lstm" /\ y_pred.kind = "prediction") =>
          /\ model.validation_data = PosOf(TestRows)
          /\ y_pred.on = model.validation_data
          /\ Range(model.fit_on) \cap Range(y_pred.on) = {}
          /\ Range(model.fit_on) \cup Range(y_pred.on) = 1..Len(TableRows)
          /\ y_pred.by.weights = BestEpoch(history)

\* scores computed on several rows with weights of an epoch before the last
C25_Witness ==
    /\ notebook = "lstm"
    /\ pc = "evaluated"
    /\ Len(y_pred.on) >= 3
    /\ y_pred.on = model.validation_data
    /\ y_pred.by.weights < Len(history)

====
